---------------------------- MODULE Spec2Model ----------------------------
(***************************************************************************)
(* Model of the Gatekeeper Viewer backend (src/backend): the Copilot       *)
(* session fetcher, the in-memory session store behind the /api/sessions   *)
(* endpoints, and the GitHub artifact retrieval path with the router's     *)
(* error translation.                                                      *)
(*                                                                         *)
(* Three specifications share the module:                                  *)
(*   SpecFetch   one call of fetch_copilot_sessions, await by await        *)
(*   SpecStore   interleaved /api/sessions requests on the shared store    *)
(*   SpecGitHub  the /api/connect and /api/runs/{id}/artifact requests     *)
(***************************************************************************)
EXTENDS Integers, Sequences, FiniteSets, TLC

(***************************************************************************)
(* Bounds of the model.                                                    *)
(***************************************************************************)
MaxSessions == 3        \* sessions in one session.list response (SpecFetch)
MaxStoreSessions == 2   \* sessions in one session.list response (SpecStore)
MaxFetches == 3         \* /api/sessions/fetch requests in one run (SpecStore)
MaxArtifacts == 2       \* artifacts listed for one run (SpecGitHub)
MaxEntries == 3         \* entries of one artifact bundle (SpecGitHub)
MaxWorkflows == 2       \* workflows listed for one repository (SpecGitHub)
MaxRuns == 1            \* runs listed for one workflow (SpecGitHub)

(***************************************************************************)
(* Python values.  A dict is a function from its keys; a missing key is a  *)
(* key outside DOMAIN.  ISO timestamps are modelled by 1, 2, ... in their  *)
(* lexicographic order and the empty string "" (the default of             *)
(* s.get("startTime", "")) by 0, which is below every timestamp.           *)
(***************************************************************************)
Min(a, b) == IF a <= b THEN a ELSE b
Max(a, b) == IF a >= b THEN a ELSE b

Get(d, k, default) == IF k \in DOMAIN d THEN d[k] ELSE default

SeqsUpTo(S, n) == UNION {[1..k -> S] : k \in 0..n}

\* Session metadata dicts as session.list may return them: "summary" stands
\* for the metadata every session has; "sessionId" may be missing or empty,
\* "startTime" may be missing.  A non-empty sessionId identifies one session.
SessionIds == {"a", "b"}
StartTimes == {1, 2}
SessionDicts ==
    [summary : {"s"}]
    \cup [summary : {"s"}, sessionId : SessionIds \cup {""}]
    \cup [summary : {"s"}, startTime : StartTimes]
    \cup [summary : {"s"}, sessionId : SessionIds, startTime : StartTimes]

\* the key is there, whatever its value
HasSessionIdKey(s) == "sessionId" \in DOMAIN s

\* s.get("sessionId") is truthy (the negation of line 64's "not sid")
HasId(s) == "sessionId" \in DOMAIN s /\ s.sessionId # ""

Listings(n) ==
    {l \in SeqsUpTo(SessionDicts, n) :
        \A i, j \in 1..Len(l) :
            (i # j /\ HasId(l[i]) /\ HasId(l[j])) => l[i].sessionId # l[j].sessionId}

\* The reply of the session.list RPC: a bare list, or a dict that may hold
\* the list under "sessions".
Responses(n) ==
    [is_list : {TRUE}, has_sessions : {FALSE}, sessions : Listings(n)]
    \cup [is_list : {FALSE}, has_sessions : {TRUE}, sessions : Listings(n)]
    \cup [is_list : {FALSE}, has_sessions : {FALSE}, sessions : {<<>>}]

\* Request bodies (SessionFetchRequest): limit is any int, fetch_all a bool.
Limits == -1..2

\* What one _fetch_session_events call meets: resume_session raises, the
\* session.getMessages request raises, or it answers a dict with or without
\* an "events" list.
EventOutcomes ==
    [kind : {"resume_raises", "request_raises"}, has_events : {FALSE}, events : {<<>>}]
    \cup [kind : {"result"}, has_events : {FALSE}, events : {<<>>}]
    \cup [kind : {"result"}, has_events : {TRUE}, events : {<<"e1", "e2">>}]

(***************************************************************************)
(* copilot_fetcher.py                                                      *)
(***************************************************************************)
\* key=lambda s: s.get("startTime", "")
SortKey(s) == Get(s, "startTime", 0)

\* list.sort(key=..., reverse=True) is stable: an element goes after the
\* elements whose key is >= its own that precede it in the input.
InsertDescUnstable(sorted, s) ==
    LET k == Cardinality({i \in 1..Len(sorted) : SortKey(sorted[i]) > SortKey(s)})
    IN  SubSeq(sorted, 1, k) \o <<s>> \o SubSeq(sorted, k + 1, Len(sorted))

InsertDesc(sorted, s) ==
    LET k == Cardinality({i \in 1..Len(sorted) : SortKey(sorted[i]) >= SortKey(s)})
    IN  SubSeq(sorted, 1, k) \o <<s>> \o SubSeq(sorted, k + 1, Len(sorted))

RECURSIVE SortPrefix(_, _)
SortPrefix(seq, n) ==
    IF n = 0 THEN <<>> ELSE InsertDesc(SortPrefix(seq, n - 1), seq[n])

SortDesc(seq) == SortPrefix(seq, Len(seq))

\* response if isinstance(response, list) else response.get("sessions", [])
ResponseSessions(resp) ==
    IF resp.is_list THEN resp.sessions
    ELSE IF resp.has_sessions THEN resp.sessions ELSE <<>>

\* _fetch_sessions, given the RPC's reply
FetchSessions(resp) == SortDesc(ResponseSessions(resp))

\* Python's seq[:cap] for an int cap
Slice(seq, cap) ==
    LET n == Len(seq)
        k == IF cap >= 0 THEN Min(cap, n) ELSE Max(n + cap, 0)
    IN  SubSeq(seq, 1, k)

\* cap = None if fetch_all else limit; sessions[:cap] if cap else sessions
\* (None and 0 are both falsy)
Truncate(seq, lim, all) ==
    LET cap_is_none == all
        cap_truthy  == ~cap_is_none /\ lim # 0
    IN  IF cap_truthy THEN Slice(seq, lim) ELSE seq

\* _fetch_session_events: every exception becomes [], a reply without
\* "events" becomes []
FetchSessionEvents(outcome) ==
    IF outcome.kind = "result"
    THEN (IF outcome.has_events THEN outcome.events ELSE <<>>)
    ELSE <<>>

\* {**s, "events": events}
WithEvents(s, events) ==
    [k \in DOMAIN s \cup {"events"} |-> IF k = "events" THEN events ELSE s[k]]

\* session_data[sid] = {**s, "events": events}
RecordUnlessEmpty(data, s, events) ==
    IF events = <<>> THEN data
    ELSE [k \in DOMAIN data \cup {s.sessionId} |->
            IF k = s.sessionId THEN WithEvents(s, events) ELSE data[k]]

Record(data, s, events) ==
    [k \in DOMAIN data \cup {s.sessionId} |->
        IF k = s.sessionId THEN WithEvents(s, events) ELSE data[k]]

EmptyDict == [k \in {} |-> 0]

\* The loop of lines 62-67 from position i on, given what each event fetch
\* meets (outcomes[i] is read only for sessions that have an id).
RECURSIVE CollectFrom(_, _, _, _)
CollectFrom(sess, outcomes, i, data) ==
    IF i > Len(sess) THEN data
    ELSE IF ~HasId(sess[i]) THEN CollectFrom(sess, outcomes, i + 1, data)
    ELSE CollectFrom(sess, outcomes, i + 1,
                     Record(data, sess[i], FetchSessionEvents(outcomes[i])))

\* fetch_copilot_sessions when neither start() nor session.list raises:
\* the pair it returns
FetchCopilotSessions(response, lim, all, outcomes) ==
    LET sess == Truncate(FetchSessions(response), lim, all)
    IN  [sessions |-> sess, session_data |-> CollectFrom(sess, outcomes, 1, EmptyDict)]

(***************************************************************************)
(* main.py: the session store and its endpoints                            *)
(***************************************************************************)
\* A Python object built by a fetch: 'fetch' numbers the call of
\* fetch_copilot_sessions that built it (0: the module's initial [] and {}),
\* 'items' is its content.
Obj(n, items) == [fetch |-> n, items |-> items]

\* _session_store as the module creates it
InitialStore == [sessions |-> Obj(0, <<>>), session_data |-> Obj(0, EmptyDict)]

\* What the awaited fetch_copilot_sessions call gave the endpoint
Raised == [raised |-> TRUE]
Returned(n, pair) ==
    [raised |-> FALSE,
     sessions |-> Obj(n, pair.sessions),
     session_data |-> Obj(n, pair.session_data)]

\* fetch_sessions_endpoint from the point where the await is over: the new
\* store and the response.  No await separates the two assignments and the
\* return, so they are one step of the event loop.
EndpointStoresListOnly(store, got) ==
    IF got.raised
    THEN [store |-> store, status |-> 500, count |-> 0]
    ELSE [store |-> [store EXCEPT !.sessions = got.sessions],
          status |-> 200, count |-> Len(got.sessions.items)]

EndpointMergesData(store, got) ==
    IF got.raised
    THEN [store |-> store, status |-> 500, count |-> 0]
    ELSE [store |->
            [sessions |-> got.sessions,
             session_data |->
                Obj(got.session_data.fetch,
                    [k \in DOMAIN store.session_data.items
                              \cup DOMAIN got.session_data.items |->
                        IF k \in DOMAIN got.session_data.items
                        THEN got.session_data.items[k]
                        ELSE store.session_data.items[k]])],
          status |-> 200, count |-> Len(got.sessions.items)]

EndpointClearsOnFailure(store, got) ==
    IF got.raised
    THEN [store |-> InitialStore, status |-> 500, count |-> 0]
    ELSE [store |-> [sessions |-> got.sessions, session_data |-> got.session_data],
          status |-> 200, count |-> Len(got.sessions.items)]

FetchSessionsEndpoint(store, got) ==
    IF got.raised
    THEN [store |-> store, status |-> 500, count |-> 0]
    ELSE [store |-> [sessions |-> got.sessions, session_data |-> got.session_data],
          status |-> 200, count |-> Len(got.sessions.items)]

\* list_sessions: the stored list itself
ListSessions(store) == [status |-> 200, body |-> store.sessions]

\* get_session: the stored record, or 404
GetSession(store, session_id) ==
    IF session_id \in DOMAIN store.session_data.items
    THEN [status |-> 200, body |-> store.session_data.items[session_id]]
    ELSE [status |-> 404, body |-> "not found"]

\* Inputs of SpecStore: the sessions of one account, listed in any order
\* and number; limits that cut the listing and limits that do not.
StoreDicts ==
    {[summary |-> "s", sessionId |-> "a", startTime |-> 1],
     [summary |-> "s", sessionId |-> "b", startTime |-> 2],
     [summary |-> "s", startTime |-> 2]}

StoreResponses ==
    {[is_list |-> TRUE, has_sessions |-> FALSE, sessions |-> l] :
        l \in {x \in SeqsUpTo(StoreDicts, MaxStoreSessions) :
                 \A i, j \in 1..Len(x) :
                     (i # j /\ HasId(x[i]) /\ HasId(x[j])) => x[i] # x[j]}}

StoreLimits == 1..2

StoreOutcomes == {o \in EventOutcomes : o.kind = "request_raises" \/ o.has_events}

Handlers == {"h1", "h2"}
GetSessionIds == SessionIds \cup {"zz"}

(***************************************************************************)
(* github_client.py                                                        *)
(*                                                                         *)
(* A file name is the sequence of its pieces, so that str.endswith and     *)
(* str.startswith are suffix and prefix tests on sequences: the name       *)
(* "reports/gatekeeper-consolidated.json" is                               *)
(* <<"reports/", "gatekeeper-consolidated", ".json">>.                     *)
(***************************************************************************)
EndsWith(name, suffix) ==
    /\ Len(name) >= Len(suffix)
    /\ SubSeq(name, Len(name) - Len(suffix) + 1, Len(name)) = suffix

StartsWith(name, prefix) ==
    /\ Len(name) >= Len(prefix)
    /\ SubSeq(name, 1, Len(prefix)) = prefix

\* the pieces that end with "/"
DirPieces == {"x/", "reports/", "docs/"}

\* the whole entry name, directories included
WholeName(name) == name

\* name.rsplit("/", 1)[-1] if "/" in name else name
RECURSIVE Basename(_)
Basename(name) ==
    IF \E i \in 1..Len(name) : name[i] \in DirPieces
    THEN Basename(Tail(name))
    ELSE name

\* json_candidates, line 154
JsonCandidates ==
    <<(<<"gatekeeper-consolidated", ".json">>), (<<"council-results", ".json">>)>>
DotJson == <<".json">>
CastImpactPrefix == <<"cast-impact-analysis">>

\* Entry names a bundle may hold
EntryNames ==
    {<<"gatekeeper-consolidated", ".json">>,
     <<"reports/", "gatekeeper-consolidated", ".json">>,
     <<"council-results", ".json">>,
     <<"old-", "council-results", ".json">>,
     <<"x/", "output", ".json">>,
     <<"cast-impact-analysis", "-v2", ".md">>,
     <<"docs/", "cast-impact-analysis", ".md">>,
     <<"readme", ".md">>}

\* zf.namelist() of the bundles: entry names in archive order, no name twice
Bundles ==
    {b \in SeqsUpTo(EntryNames, MaxEntries) :
        \A i, j \in 1..Len(b) : i # j => b[i] # b[j]}

\* json.loads(zf.read(name)): in the model every entry holds its own object
JsonOf(name) == [document |-> name]

\* zf.read(name).decode("utf-8", errors="replace")
TextOf(name) == <<"text of", name>>

\* for name in zf.namelist(): if name.endswith(suffix): the first such
\* position from i on, 0 if there is none
RECURSIVE FirstEndingWith(_, _, _)
FirstEndingWith(names, suffix, i) ==
    IF i > Len(names) THEN 0
    ELSE IF EndsWith(names[i], suffix) THEN i
    ELSE FirstEndingWith(names, suffix, i + 1)

\* for candidate in json_candidates: for name in zf.namelist(): ...
RECURSIVE SearchCandidates(_, _)
SearchCandidates(names, c) ==
    IF c > Len(JsonCandidates) THEN 0
    ELSE LET i == FirstEndingWith(names, JsonCandidates[c], 1)
         IN  IF i # 0 THEN i ELSE SearchCandidates(names, c + 1)

\* the loops the other way round: the first name that ends with any candidate
SelectFirstKnownName(names) ==
    LET known == {i \in 1..Len(names) :
                    \E c \in 1..Len(JsonCandidates) : EndsWith(names[i], JsonCandidates[c])}
    IN  IF known # {}
        THEN CHOOSE i \in known : \A j \in known : i <= j
        ELSE FirstEndingWith(names, DotJson, 1)

\* lines 156-170: the position of the entry get_artifact parses, 0 if none
SelectJsonEntry(names) ==
    LET k == SearchCandidates(names, 1)
    IN  IF k # 0 THEN k ELSE FirstEndingWith(names, DotJson, 1)

\* _merge_cast_impact: the first entry whose base name starts with
\* "cast-impact-analysis" is read and attached; a failing read is swallowed
RECURSIVE FirstCastImpact(_, _)
FirstCastImpact(names, i) ==
    IF i > Len(names) THEN 0
    ELSE IF StartsWith(Basename(names[i]), CastImpactPrefix) THEN i
    ELSE FirstCastImpact(names, i + 1)

\* how the zf.read of line 181 went, "none" when no entry was read
CastRead(names, read_ok) ==
    IF FirstCastImpact(names, 1) = 0 THEN "none"
    ELSE IF read_ok THEN "ok"
    ELSE "failed"

MergeCastImpact(names, result, read_ok) ==
    LET i == FirstCastImpact(names, 1)
    IN  IF i # 0 /\ read_ok
        THEN [k \in DOMAIN result \cup {"cast_impact_analysis"} |->
                IF k = "cast_impact_analysis" THEN TextOf(names[i]) ELSE result[k]]
        ELSE result

\* Upstream replies to one GET: an HTTP status, or no reply at all
HttpStatuses == {200, 401, 403, 404, 500}
UpstreamReplies ==
    [transport_error : {FALSE}, status : HttpStatuses]
    \cup [transport_error : {TRUE}, status : {0}]

\* _get_json: the exception it raises, "" if it returns r.json()
GetJson(reply) ==
    IF reply.transport_error THEN "TransportError"
    ELSE IF reply.status = 401 THEN "PermissionError"
    ELSE IF reply.status = 403 THEN "PermissionError"
    ELSE IF reply.status = 404 THEN "LookupError"
    ELSE IF reply.status >= 400 THEN "HTTPStatusError"
    ELSE ""

\* the zip download of lines 146-150: r.raise_for_status()
DownloadRaises(reply) ==
    IF reply.transport_error THEN "TransportError"
    ELSE IF reply.status >= 400 THEN "HTTPStatusError"
    ELSE ""

\* Artifacts as the listing names them: a["name"], a["id"]
ArtifactNames == {"gatekeeper-final-analysis", "feature-requirement-analysis", "logs"}
ArtifactListings ==
    {[i \in 1..Len(names) |-> [name |-> names[i], id |-> 100 + i]] :
        names \in SeqsUpTo(ArtifactNames, MaxArtifacts)}

\* artifact_id: int | None = None
NoArtifact == 0

\* Workflows as the listing names them: wf["name"], wf["id"]
WorkflowNames == {"Gatekeeper Analysis", "Feature Requirement Analysis"}
WorkflowListings ==
    {[i \in 1..Len(names) |-> [name |-> names[i], id |-> 200 + i]] :
        names \in SeqsUpTo(WorkflowNames \cup {"CI"}, MaxWorkflows)}

\* get_workflow_id's "return None"
NoWorkflow == 0

\* get_workflow_id, lines 66-69, from position i on: the id of the first
\* workflow with the name
RECURSIVE ScanWorkflows(_, _, _)
ScanWorkflows(workflows, name, i) ==
    IF i > Len(workflows) THEN NoWorkflow
    ELSE IF workflows[i].name = name THEN workflows[i].id
    ELSE ScanWorkflows(workflows, name, i + 1)

GetWorkflowId(workflows, name) == ScanWorkflows(workflows, name, 1)

\* Runs as the upstream listing gives them; the fields get_runs copies as
\* they are stand behind "id", the SHA is nine characters, the actor may be
\* missing
FullSha == <<"c", "0", "f", "f", "e", "e", "1", "2", "3">>
WorkflowRuns ==
    [id : {11}, head_sha : {FullSha}]
    \cup [id : {12}, head_sha : {FullSha}, actor : {"octocat"}]
RunListings == SeqsUpTo(WorkflowRuns, MaxRuns)

\* get_runs, lines 81-97: one summary per run
RunSummary(r) ==
    [id |-> r.id,
     head_sha |-> SubSeq(r.head_sha, 1, Min(7, Len(r.head_sha))),
     actor |-> IF "actor" \in DOMAIN r THEN r.actor ELSE "unknown"]

GetRuns(runs) == [i \in 1..Len(runs) |-> RunSummary(runs[i])]

\* lines 134-140 from position i on
RECURSIVE ScanArtifacts(_, _, _, _)
ScanArtifacts(artifacts, artifact_name, i, available) ==
    IF i > Len(artifacts) THEN [artifact_id |-> NoArtifact, available |-> available]
    ELSE IF artifacts[i].name = artifact_name
         THEN [artifact_id |-> artifacts[i].id,
               available |-> Append(available, artifacts[i].name)]
         ELSE ScanArtifacts(artifacts, artifact_name, i + 1,
                            Append(available, artifacts[i].name))

FindArtifactFromSecond(artifacts, artifact_name) ==
    ScanArtifacts(artifacts, artifact_name, 2, <<>>)

FindArtifact(artifacts, artifact_name) ==
    ScanArtifacts(artifacts, artifact_name, 1, <<>>)

\* line 143
ArtifactNotFound(artifact_name, available) ==
    [error |-> <<"Artifact not found", artifact_name>>, available |-> available]

\* line 172
NoJsonFound == [error |-> "No JSON found in artifact"]

\* lines 153-172 on the names of the downloaded bundle: what get_artifact
\* returns, and the entry it parsed (0: none); json.loads may raise
ExtractJson(names, parse_ok, read_ok) ==
    LET k == SelectJsonEntry(names)
    IN  IF k = 0
        THEN [raises |-> "", result |-> NoJsonFound, parsed |-> 0,
              cast_read |-> "none"]
        ELSE IF ~parse_ok
             THEN [raises |-> "JSONDecodeError", result |-> NoJsonFound,
                   parsed |-> k, cast_read |-> "none"]
        ELSE [raises |-> "",
              result |-> MergeCastImpact(names, JsonOf(names[k]), read_ok),
              parsed |-> k,
              cast_read |-> CastRead(names, read_ok)]

(***************************************************************************)
(* main.py: the GitHub endpoints                                           *)
(***************************************************************************)
\* GitHub URLs as the parts _GITHUB_URL_RE tells apart: the scheme, the
\* host and the number of path segments after it
GithubUrls ==
    [scheme : {"https://", "", "ftp://"},
     host : {"github.com", "www.github.com", "gitlab.com"},
     segments : 1..3]

\* parse_github_url: TRUE iff _GITHUB_URL_RE matches (else ValueError)
ParseGithubUrl(url) ==
    /\ url.scheme \in {"https://", ""}
    /\ url.host \in {"github.com", "www.github.com"}
    /\ url.segments = 2

\* connect, lines 91-100: the status of the response given what validate()
\* raised ("" if it returned).  PermissionError and LookupError have their
\* own except clause, every other Exception falls to the last one.
ConnectStatus(exc) ==
    IF exc = "" THEN 200
    ELSE IF exc = "PermissionError" THEN 403
    ELSE IF exc = "LookupError" THEN 404
    ELSE 401

\* get_run_artifact / get_frd_run_artifact, lines 144-149, on what
\* get_artifact returned
ArtifactStatus(result) ==
    IF "error" \in DOMAIN result /\ "available" \in DOMAIN result THEN 404 ELSE 200

\* an exception no handler catches: the framework answers 500
UnhandledStatus == 500

\* list_runs / list_frd_runs, lines 121-128: the status of the response given
\* what left the try block ("" if get_runs returned)
RunsStatus(exc) ==
    IF exc = "" THEN 200
    ELSE IF exc = "HTTPException" THEN 404
    ELSE UnhandledStatus

(***************************************************************************)
(* State                                                                   *)
(***************************************************************************)
VARIABLES
    \* one call of fetch_copilot_sessions (SpecFetch)
    pc,            \* where the call is: the await it is suspended at
    limit,         \* argument
    fetch_all,     \* argument
    client,        \* the CopilotClient: "new", "started", "stopped"
    response,      \* what session.list answered
    listed,        \* what _fetch_sessions returned
    sessions,      \* local 'sessions'
    session_data,  \* local 'session_data'
    idx,           \* position of the for loop in 'sessions' (1-based)
    evlog,         \* what the event fetch of position i met
    pending,       \* how the try block ended: "return" or "raise"
    stops,         \* calls of client.stop() made by this call
    \* the session endpoints (SpecStore)
    session_store, \* _session_store
    inflight,      \* per handler: the fetch request it is awaiting, if any
    fetches,       \* calls of fetch_copilot_sessions that have ended
    last_response, \* the response sent last
    \* one GitHub request at a time (SpecGitHub)
    rpc,           \* where the handler is: the await it is suspended at
    op,            \* the endpoint: "connect", "artifact" or "runs"
    url,           \* connect: body.github_url
    gh_client,     \* the GitHubClient: "none", "open", "closed"
    upstream,      \* the upstream reply the handler met last
    artifact_name, \* get_artifact: artifact_name
    artifacts,     \* get_artifact: data.get("artifacts", [])
    found,         \* get_artifact: artifact_id and available after the loop
    downloads,     \* zip downloads requested by this call
    bundle,        \* zf.namelist() of the downloaded bundle
    parsed,        \* position of the entry json.loads was given, 0 if none
    returned,      \* what get_artifact returned, if it did
    raised,        \* the exception leaving the handler's try block, "" if none
    http_status,   \* status of the response, 0 while there is none
    closes,        \* calls of client.close() made by this request
    cast_read,     \* _merge_cast_impact's zf.read: "none", "ok" or "failed"
    workflow_name, \* list_runs: workflow_name
    workflow_id    \* list_runs: wf_id

fetchVars == <<pc, limit, fetch_all, client, response, listed, sessions,
               session_data, idx, evlog, pending, stops>>

storeVars == <<session_store, inflight, fetches, last_response>>

ghVars == <<rpc, op, url, gh_client, upstream, artifact_name, artifacts, found,
            downloads, bundle, parsed, returned, raised, http_status, closes,
            cast_read, workflow_name, workflow_id>>

vars == <<fetchVars, storeVars, ghVars>>

NoResponse == [is_list |-> FALSE, has_sessions |-> FALSE, sessions |-> <<>>]

InitFetchIdle ==
    /\ pc = "off"
    /\ limit = 0
    /\ fetch_all = FALSE
    /\ client = "new"
    /\ response = NoResponse
    /\ listed = <<>>
    /\ sessions = <<>>
    /\ session_data = EmptyDict
    /\ idx = 0
    /\ evlog = EmptyDict
    /\ pending = "none"
    /\ stops = 0

NoUrl == [scheme |-> "", host |-> "", segments |-> 0]
NoReply == [transport_error |-> FALSE, status |-> 0]
NothingFound == [artifact_id |-> NoArtifact, available |-> <<>>]
NothingReturned == [none |-> TRUE]

\* the locals of a GitHub request before it has run
FreshRequest ==
    /\ url = NoUrl
    /\ gh_client = "none"
    /\ upstream = NoReply
    /\ artifact_name = ""
    /\ artifacts = <<>>
    /\ found = NothingFound
    /\ downloads = 0
    /\ bundle = <<>>
    /\ parsed = 0
    /\ returned = NothingReturned
    /\ raised = ""
    /\ http_status = 0
    /\ closes = 0
    /\ cast_read = "none"
    /\ workflow_name = ""
    /\ workflow_id = NoWorkflow

InitGitHubIdle ==
    /\ rpc = "idle"
    /\ op = "none"
    /\ FreshRequest

\* no GitHub request is part of the behaviour
InitGitHubOff ==
    /\ rpc = "off"
    /\ op = "none"
    /\ FreshRequest

Idle == [pc |-> "idle"]
NoResponseYet == [op |-> "none"]

InitStoreIdle ==
    /\ session_store = InitialStore
    /\ inflight = [h \in Handlers |-> Idle]
    /\ fetches = 0
    /\ last_response = NoResponseYet

\* fetch_copilot_sessions(token, limit, fetch_all) is called
InitFetch ==
    /\ InitStoreIdle
    /\ InitGitHubOff
    /\ pc = "start"
    /\ limit \in Limits
    /\ fetch_all \in BOOLEAN
    /\ client = "new"
    /\ response = NoResponse
    /\ listed = <<>>
    /\ sessions = <<>>
    /\ session_data = EmptyDict
    /\ idx = 0
    /\ evlog = EmptyDict
    /\ pending = "none"
    /\ stops = 0

(***************************************************************************)
(* fetch_copilot_sessions, one action per await                            *)
(***************************************************************************)
\* await client.start() returns
ClientStartOk ==
    /\ pc = "start"
    /\ client' = "started"
    /\ pc' = "list"
    /\ UNCHANGED <<storeVars, ghVars>>
    /\ UNCHANGED stops
    /\ UNCHANGED <<limit, fetch_all, response, listed, sessions, session_data,
                   idx, evlog, pending>>

\* await client.start() raises: outside the try, so no stop()
ClientStartRaises ==
    /\ pc = "start"
    /\ pc' = "raised"
    /\ pending' = "raise"
    /\ UNCHANGED <<storeVars, ghVars>>
    /\ UNCHANGED stops
    /\ UNCHANGED <<limit, fetch_all, client, response, listed, sessions,
                   session_data, idx, evlog>>

\* await _fetch_sessions(client) returns; lines 58-61 run with it
FetchSessionsOk ==
    /\ pc = "list"
    /\ \E r \in Responses(MaxSessions) :
        /\ response' = r
        /\ listed' = FetchSessions(r)
        /\ sessions' = Truncate(FetchSessions(r), limit, fetch_all)
    /\ session_data' = EmptyDict
    /\ idx' = 1
    /\ pc' = "loop"
    /\ UNCHANGED <<storeVars, ghVars>>
    /\ UNCHANGED stops
    /\ UNCHANGED <<limit, fetch_all, client, evlog, pending>>

\* the session.list request raises and the exception leaves at once
FetchSessionsRaisesUnreleased ==
    /\ pc = "list"
    /\ pending' = "raise"
    /\ pc' = "raised"
    /\ UNCHANGED <<storeVars, ghVars>>
    /\ UNCHANGED <<limit, fetch_all, client, response, listed, sessions,
                   session_data, idx, evlog, stops>>

\* the session.list request raises: the finally clause runs
FetchSessionsRaises ==
    /\ pc = "list"
    /\ pending' = "raise"
    /\ pc' = "stop"
    /\ UNCHANGED <<storeVars, ghVars>>
    /\ UNCHANGED stops
    /\ UNCHANGED <<limit, fetch_all, client, response, listed, sessions,
                   session_data, idx, evlog>>

\* a session without an id: continue
LoopSkip ==
    /\ pc = "loop"
    /\ idx <= Len(sessions)
    /\ ~HasId(sessions[idx])
    /\ idx' = idx + 1
    /\ UNCHANGED <<storeVars, ghVars>>
    /\ UNCHANGED stops
    /\ UNCHANGED <<pc, limit, fetch_all, client, response, listed, sessions,
                   session_data, evlog, pending>>

\* await _fetch_session_events(client, sid) returns; line 67 records it
LoopFetchEvents ==
    /\ pc = "loop"
    /\ idx <= Len(sessions)
    /\ HasId(sessions[idx])
    /\ \E o \in EventOutcomes :
        /\ session_data' = Record(session_data, sessions[idx], FetchSessionEvents(o))
        /\ evlog' = [k \in DOMAIN evlog \cup {idx} |-> IF k = idx THEN o ELSE evlog[k]]
    /\ idx' = idx + 1
    /\ UNCHANGED <<storeVars, ghVars>>
    /\ UNCHANGED stops
    /\ UNCHANGED <<pc, limit, fetch_all, client, response, listed, sessions, pending>>

\* the loop is over: return sessions, session_data; the finally clause runs
LoopEnd ==
    /\ pc = "loop"
    /\ idx > Len(sessions)
    /\ pending' = "return"
    /\ pc' = "stop"
    /\ UNCHANGED <<storeVars, ghVars>>
    /\ UNCHANGED stops
    /\ UNCHANGED <<limit, fetch_all, client, response, listed, sessions,
                   session_data, idx, evlog>>

\* finally: await client.stop(), then the return or the exception goes on
ClientStop ==
    /\ pc = "stop"
    /\ client' = "stopped"
    /\ stops' = stops + 1
    /\ pc' = IF pending = "return" THEN "returned" ELSE "raised"
    /\ UNCHANGED <<storeVars, ghVars>>
    /\ UNCHANGED <<limit, fetch_all, response, listed, sessions, session_data,
                   idx, evlog, pending>>

NextFetch ==
    \/ ClientStartOk
    \/ ClientStartRaises
    \/ FetchSessionsOk
    \/ FetchSessionsRaises
    \/ LoopSkip
    \/ LoopFetchEvents
    \/ LoopEnd
    \/ ClientStop

SpecFetch == InitFetch /\ [][NextFetch]_vars

(***************************************************************************)
(* The session endpoints, one action per step of the event loop            *)
(***************************************************************************)
Awaiting == {h \in Handlers : inflight[h].pc = "awaiting"}

\* POST /api/sessions/fetch arrives and runs up to its await
FetchRequest(h) ==
    /\ inflight[h].pc = "idle"
    /\ fetches + Cardinality(Awaiting) < MaxFetches
    /\ \E lim \in StoreLimits, all \in BOOLEAN :
          inflight' = [inflight EXCEPT
                          ![h] = [pc |-> "awaiting", limit |-> lim, fetch_all |-> all]]
    /\ UNCHANGED <<session_store, fetches, last_response>>
    /\ UNCHANGED <<fetchVars, ghVars>>

\* the awaited fetch_copilot_sessions returns; lines 221-227 run
FetchReturns(h) ==
    /\ inflight[h].pc = "awaiting"
    /\ \E r \in StoreResponses :
          LET lim  == inflight[h].limit
              all  == inflight[h].fetch_all
              sess == Truncate(FetchSessions(r), lim, all)
          IN  \E o \in [{i \in 1..Len(sess) : HasId(sess[i])} -> StoreOutcomes] :
                LET got == Returned(fetches + 1, FetchCopilotSessions(r, lim, all, o))
                    out == FetchSessionsEndpoint(session_store, got)
                IN  /\ session_store' = out.store
                    /\ last_response' =
                          [op |-> "fetch", raised |-> FALSE, status |-> out.status,
                           count |-> out.count, listed |-> Len(ResponseSessions(r))]
    /\ fetches' = fetches + 1
    /\ inflight' = [inflight EXCEPT ![h] = Idle]
    /\ UNCHANGED <<fetchVars, ghVars>>

\* the awaited fetch_copilot_sessions raises; lines 216-219 run
FetchRaises(h) ==
    /\ inflight[h].pc = "awaiting"
    /\ LET out == FetchSessionsEndpoint(session_store, Raised)
       IN  /\ session_store' = out.store
           /\ last_response' =
                 [op |-> "fetch", raised |-> TRUE, status |-> out.status,
                  count |-> out.count, listed |-> 0]
    /\ fetches' = fetches + 1
    /\ inflight' = [inflight EXCEPT ![h] = Idle]
    /\ UNCHANGED <<fetchVars, ghVars>>

\* GET /api/sessions
ListSessionsRequest ==
    /\ LET out == ListSessions(session_store)
       IN  last_response' =
             [op |-> "list_sessions", status |-> out.status, from |-> out.body.fetch]
    /\ UNCHANGED <<session_store, inflight, fetches>>
    /\ UNCHANGED <<fetchVars, ghVars>>

\* GET /api/sessions/{session_id}
GetSessionRequest ==
    /\ \E sid \in GetSessionIds :
          LET out == GetSession(session_store, sid)
          IN  last_response' =
                [op |-> "get_session", status |-> out.status, id |-> sid,
                 from |-> session_store.session_data.fetch]
    /\ UNCHANGED <<session_store, inflight, fetches>>
    /\ UNCHANGED <<fetchVars, ghVars>>

NextStore ==
    \/ \E h \in Handlers : FetchRequest(h)
    \/ \E h \in Handlers : FetchReturns(h)
    \/ \E h \in Handlers : FetchRaises(h)
    \/ ListSessionsRequest
    \/ GetSessionRequest

InitStore == InitStoreIdle /\ InitFetchIdle /\ InitGitHubIdle

SpecStore == InitStore /\ [][NextStore]_vars

(***************************************************************************)
(* The GitHub endpoints, one action per await                              *)
(***************************************************************************)
\* no request has arrived yet; each request runs with a client of its own
Ready == rpc = "idle"

\* POST /api/connect with a URL parse_github_url rejects: 400, no client
ConnectBadUrl ==
    /\ Ready
    /\ \E u \in GithubUrls :
          /\ ~ParseGithubUrl(u)
          /\ url' = u
    /\ op' = "connect"
    /\ gh_client' = "none"
    /\ upstream' = NoReply
    /\ raised' = "ValueError"
    /\ http_status' = 400
    /\ rpc' = "done"
    /\ artifact_name' = ""
    /\ artifacts' = <<>>
    /\ found' = NothingFound
    /\ downloads' = 0
    /\ bundle' = <<>>
    /\ parsed' = 0
    /\ returned' = NothingReturned
    /\ UNCHANGED <<fetchVars, storeVars>>
    /\ UNCHANGED <<closes, cast_read, workflow_name, workflow_id>>

\* POST /api/connect: the URL parses, the client is made, validate() awaits
ConnectRequest ==
    /\ Ready
    /\ \E u \in GithubUrls :
          /\ ParseGithubUrl(u)
          /\ url' = u
    /\ op' = "connect"
    /\ gh_client' = "open"
    /\ upstream' = NoReply
    /\ raised' = ""
    /\ http_status' = 0
    /\ rpc' = "validate"
    /\ artifact_name' = ""
    /\ artifacts' = <<>>
    /\ found' = NothingFound
    /\ downloads' = 0
    /\ bundle' = <<>>
    /\ parsed' = 0
    /\ returned' = NothingReturned
    /\ UNCHANGED <<fetchVars, storeVars>>
    /\ UNCHANGED <<closes, cast_read, workflow_name, workflow_id>>

\* await client.validate() is over; the finally clause awaits close()
ConnectValidated ==
    /\ rpc = "validate"
    /\ \E reply \in UpstreamReplies :
          /\ upstream' = reply
          /\ raised' = GetJson(reply)
    /\ rpc' = "closing"
    /\ UNCHANGED <<op, url, gh_client, artifact_name, artifacts, found, downloads,
                   bundle, parsed, returned, http_status>>
    /\ UNCHANGED <<fetchVars, storeVars>>
    /\ UNCHANGED <<closes, cast_read, workflow_name, workflow_id>>

\* GET /api/runs/{run_id}/artifact (and the /api/frd one): the client is
\* made and get_artifact awaits the artifact listing
ArtifactRequest ==
    /\ Ready
    /\ \E name \in ArtifactNames : artifact_name' = name
    /\ op' = "artifact"
    /\ url' = NoUrl
    /\ gh_client' = "open"
    /\ upstream' = NoReply
    /\ raised' = ""
    /\ http_status' = 0
    /\ rpc' = "list_artifacts"
    /\ artifacts' = <<>>
    /\ found' = NothingFound
    /\ downloads' = 0
    /\ bundle' = <<>>
    /\ parsed' = 0
    /\ returned' = NothingReturned
    /\ UNCHANGED <<fetchVars, storeVars>>
    /\ UNCHANGED <<closes, cast_read, workflow_name, workflow_id>>

\* the artifact listing request fails: _get_json raises
ArtifactListingFails ==
    /\ rpc = "list_artifacts"
    /\ \E reply \in UpstreamReplies :
          /\ GetJson(reply) # ""
          /\ upstream' = reply
          /\ raised' = GetJson(reply)
    /\ rpc' = "closing"
    /\ UNCHANGED <<op, url, gh_client, artifact_name, artifacts, found, downloads,
                   bundle, parsed, returned, http_status>>
    /\ UNCHANGED <<fetchVars, storeVars>>
    /\ UNCHANGED <<closes, cast_read, workflow_name, workflow_id>>

\* the artifact listing arrives and no artifact has the name: line 143
ArtifactMissing ==
    /\ rpc = "list_artifacts"
    /\ \E reply \in UpstreamReplies, listing \in ArtifactListings :
          /\ GetJson(reply) = ""
          /\ FindArtifact(listing, artifact_name).artifact_id = NoArtifact
          /\ upstream' = reply
          /\ artifacts' = listing
          /\ found' = FindArtifact(listing, artifact_name)
          /\ returned' = ArtifactNotFound(artifact_name,
                                          FindArtifact(listing, artifact_name).available)
    /\ rpc' = "closing"
    /\ UNCHANGED <<op, url, gh_client, artifact_name, downloads, bundle, parsed,
                   raised, http_status>>
    /\ UNCHANGED <<fetchVars, storeVars>>
    /\ UNCHANGED <<closes, cast_read, workflow_name, workflow_id>>

\* the artifact listing arrives with the artifact: the zip download awaits
ArtifactListed ==
    /\ rpc = "list_artifacts"
    /\ \E reply \in UpstreamReplies, listing \in ArtifactListings :
          /\ GetJson(reply) = ""
          /\ FindArtifact(listing, artifact_name).artifact_id # NoArtifact
          /\ upstream' = reply
          /\ artifacts' = listing
          /\ found' = FindArtifact(listing, artifact_name)
    /\ downloads' = downloads + 1
    /\ rpc' = "download"
    /\ UNCHANGED <<op, url, gh_client, artifact_name, bundle, parsed, returned,
                   raised, http_status>>
    /\ UNCHANGED <<fetchVars, storeVars>>
    /\ UNCHANGED <<closes, cast_read, workflow_name, workflow_id>>

\* the zip download fails: raise_for_status or the transport raises
DownloadFails ==
    /\ rpc = "download"
    /\ \E reply \in UpstreamReplies :
          /\ DownloadRaises(reply) # ""
          /\ upstream' = reply
          /\ raised' = DownloadRaises(reply)
    /\ rpc' = "closing"
    /\ UNCHANGED <<op, url, gh_client, artifact_name, artifacts, found, downloads,
                   bundle, parsed, returned, http_status>>
    /\ UNCHANGED <<fetchVars, storeVars>>
    /\ UNCHANGED <<closes, cast_read, workflow_name, workflow_id>>

\* the zip arrives; lines 153-172 run on it
DownloadExtracted ==
    /\ rpc = "download"
    /\ \E reply \in UpstreamReplies, b \in Bundles, parse_ok, read_ok \in BOOLEAN :
          LET out == ExtractJson(b, parse_ok, read_ok)
          IN  /\ DownloadRaises(reply) = ""
              /\ upstream' = reply
              /\ bundle' = b
              /\ parsed' = out.parsed
              /\ raised' = out.raises
              /\ returned' = IF out.raises = "" THEN out.result ELSE NothingReturned
              /\ cast_read' = out.cast_read
    /\ rpc' = "closing"
    /\ UNCHANGED <<op, url, gh_client, artifact_name, artifacts, found, downloads,
                   http_status>>
    /\ UNCHANGED <<fetchVars, storeVars>>
    /\ UNCHANGED <<closes, workflow_name, workflow_id>>

\* GET /api/runs (and the /api/frd one): the client is made and
\* get_workflow_id awaits the workflow listing
RunsRequest ==
    /\ Ready
    /\ \E name \in WorkflowNames : workflow_name' = name
    /\ op' = "runs"
    /\ gh_client' = "open"
    /\ rpc' = "workflows"
    /\ UNCHANGED <<url, upstream, artifact_name, artifacts, found, downloads,
                   bundle, parsed, returned, raised, http_status>>
    /\ UNCHANGED <<fetchVars, storeVars>>
    /\ UNCHANGED <<closes, cast_read, workflow_id>>

\* the workflow listing request fails: _get_json raises
WorkflowsFail ==
    /\ rpc = "workflows"
    /\ \E reply \in UpstreamReplies :
          /\ GetJson(reply) # ""
          /\ upstream' = reply
          /\ raised' = GetJson(reply)
    /\ rpc' = "closing"
    /\ UNCHANGED <<op, url, gh_client, artifact_name, artifacts, found, downloads,
                   bundle, parsed, returned, http_status>>
    /\ UNCHANGED <<fetchVars, storeVars>>
    /\ UNCHANGED <<closes, cast_read, workflow_name, workflow_id>>

\* the listing has no workflow with the name: HTTPException(404), line 123
WorkflowMissing ==
    /\ rpc = "workflows"
    /\ \E reply \in UpstreamReplies, listing \in WorkflowListings :
          /\ GetJson(reply) = ""
          /\ GetWorkflowId(listing, workflow_name) = NoWorkflow
          /\ upstream' = reply
    /\ raised' = "HTTPException"
    /\ rpc' = "closing"
    /\ UNCHANGED <<op, url, gh_client, artifact_name, artifacts, found, downloads,
                   bundle, parsed, returned, http_status>>
    /\ UNCHANGED <<fetchVars, storeVars>>
    /\ UNCHANGED <<closes, cast_read, workflow_name, workflow_id>>

\* the listing has the workflow: get_runs awaits the run listing
WorkflowFound ==
    /\ rpc = "workflows"
    /\ \E reply \in UpstreamReplies, listing \in WorkflowListings :
          /\ GetJson(reply) = ""
          /\ GetWorkflowId(listing, workflow_name) # NoWorkflow
          /\ upstream' = reply
          /\ workflow_id' = GetWorkflowId(listing, workflow_name)
    /\ rpc' = "runs"
    /\ UNCHANGED <<op, url, gh_client, artifact_name, artifacts, found, downloads,
                   bundle, parsed, returned, raised, http_status>>
    /\ UNCHANGED <<fetchVars, storeVars>>
    /\ UNCHANGED <<closes, cast_read, workflow_name>>

\* the run listing request fails: _get_json raises
RunsFail ==
    /\ rpc = "runs"
    /\ \E reply \in UpstreamReplies :
          /\ GetJson(reply) # ""
          /\ upstream' = reply
          /\ raised' = GetJson(reply)
    /\ rpc' = "closing"
    /\ UNCHANGED <<op, url, gh_client, artifact_name, artifacts, found, downloads,
                   bundle, parsed, returned, http_status>>
    /\ UNCHANGED <<fetchVars, storeVars>>
    /\ UNCHANGED <<closes, cast_read, workflow_name, workflow_id>>

\* the run listing arrives: get_runs returns the summaries
RunsListed ==
    /\ rpc = "runs"
    /\ \E reply \in UpstreamReplies, runs \in RunListings :
          /\ GetJson(reply) = ""
          /\ upstream' = reply
          /\ returned' = GetRuns(runs)
    /\ rpc' = "closing"
    /\ UNCHANGED <<op, url, gh_client, artifact_name, artifacts, found, downloads,
                   bundle, parsed, raised, http_status>>
    /\ UNCHANGED <<fetchVars, storeVars>>
    /\ UNCHANGED <<closes, cast_read, workflow_name, workflow_id>>

\* finally: await client.close() is over and the response goes out
ClientClosed ==
    /\ rpc = "closing"
    /\ gh_client' = "closed"
    /\ http_status' =
          IF op = "connect" THEN ConnectStatus(raised)
          ELSE IF op = "runs" THEN RunsStatus(raised)
          ELSE IF raised # "" THEN UnhandledStatus
          ELSE ArtifactStatus(returned)
    /\ closes' = closes + 1
    /\ rpc' = "done"
    /\ UNCHANGED <<op, url, upstream, artifact_name, artifacts, found, downloads,
                   bundle, parsed, returned, raised>>
    /\ UNCHANGED <<fetchVars, storeVars>>
    /\ UNCHANGED <<cast_read, workflow_name, workflow_id>>

NextGitHub ==
    \/ ConnectBadUrl
    \/ ConnectRequest
    \/ ConnectValidated
    \/ ArtifactRequest
    \/ ArtifactListingFails
    \/ ArtifactMissing
    \/ ArtifactListed
    \/ DownloadFails
    \/ DownloadExtracted
    \/ RunsRequest
    \/ WorkflowsFail
    \/ WorkflowMissing
    \/ WorkflowFound
    \/ RunsFail
    \/ RunsListed
    \/ ClientClosed

InitGitHub == InitGitHubIdle /\ InitStoreIdle /\ InitFetchIdle

SpecGitHub == InitGitHub /\ [][NextGitHub]_vars

(***************************************************************************)
(* Every operation that opens a client: a behaviour follows one call of    *)
(* fetch_copilot_sessions or one GitHub request.  Each call makes a client *)
(* of its own and shares no state with another call.                       *)
(***************************************************************************)
InitClients == InitFetch \/ InitGitHub

NextClients ==
    \/ NextFetch
    \/ NextGitHub

SpecClients == InitClients /\ [][NextClients]_vars

(***************************************************************************)
(* Properties of fetch_copilot_sessions (SpecFetch)                        *)
(***************************************************************************)
\* the session listing step has returned
Listed == pc = "loop" \/ (pc \in {"stop", "returned"} /\ pending = "return")

\* C3: with fetch_all false the returned list has at most 'limit' entries,
\* the 'limit' most recent ones; with fetch_all true it is the whole listing.
\* The claim speaks of every integer limit; it is stated here for the limits
\* >= 0, where "at most limit entries" can be met at all.
C3_LimitRespected ==
    (Listed /\ limit >= 0) =>
        IF fetch_all THEN sessions = listed
        ELSE /\ Len(sessions) <= limit
             /\ sessions = SubSeq(listed, 1, Len(sessions))

\* positions of the selected sessions that have an id
WithId == {i \in 1..Len(sessions) : HasId(sessions[i])}

EventFetchRaised(o) == o.kind \in {"resume_raises", "request_raises"}

\* the events a session.getMessages reply carries
RepliedEvents(o) == IF o.has_events THEN o.events ELSE <<>>

\* C4: an event fetch that raises leaves its session recorded with an empty
\* event list, the loop goes on to every later session, every other session
\* with an id is recorded with the events its own fetch returned, and the
\* call returns instead of raising.
C4_EventFailureIsolated ==
    /\ \A i \in DOMAIN evlog :
          /\ i \in WithId
          /\ sessions[i].sessionId \in DOMAIN session_data
          /\ session_data[sessions[i].sessionId].events =
                IF EventFetchRaised(evlog[i]) THEN <<>> ELSE RepliedEvents(evlog[i])
          /\ \A k \in DOMAIN sessions[i] :
                session_data[sessions[i].sessionId][k] = sessions[i][k]
    /\ (\E i \in DOMAIN evlog : EventFetchRaised(evlog[i])) =>
          /\ pc \in {"loop", "stop", "returned"}
          /\ pending # "raise"
    /\ pc \in {"stop", "returned"} /\ pending = "return" => DOMAIN evlog = WithId

\* a call has returned in which the first event fetch raised and a later one
\* answered events
C4_Witness ==
    /\ pc = "returned"
    /\ \E i, j \in DOMAIN evlog :
          /\ i < j
          /\ EventFetchRaised(evlog[i])
          /\ session_data[sessions[i].sessionId].events = <<>>
          /\ ~EventFetchRaised(evlog[j])
          /\ session_data[sessions[j].sessionId].events = <<"e1", "e2">>

HasStart(s) == "startTime" \in DOMAIN s

\* s comes strictly before u in descending start time, sessions without a
\* start time last
StrictlyBefore(s, u) ==
    \/ HasStart(s) /\ ~HasStart(u)
    \/ HasStart(s) /\ HasStart(u) /\ s.startTime > u.startTime

\* C10: the listing step returns the RPC's sessions in non-increasing order
\* of startTime, those without a startTime after all the others, and
\* sessions that tie in the order the RPC listed them.
C10_StableDescending ==
    Listed =>
        LET raw == ResponseSessions(response)
            n   == Len(raw)
        IN  /\ Len(listed) = n
            /\ \E p \in Permutations(1..n) :
                  /\ \A i \in 1..n : listed[i] = raw[p[i]]
                  /\ \A i, j \in 1..n :
                        i < j => \/ StrictlyBefore(listed[i], listed[j])
                                 \/ /\ ~StrictlyBefore(listed[j], listed[i])
                                    /\ p[i] < p[j]

\* a listing where the sort had to move a session and two different
\* sessions tie
C10_Witness ==
    /\ Listed
    /\ listed # ResponseSessions(response)
    /\ \E i \in 1..Len(listed) - 1 :
          /\ listed[i] # listed[i + 1]
          /\ ~StrictlyBefore(listed[i], listed[i + 1])

(***************************************************************************)
(* Properties of the session store (SpecStore)                             *)
(***************************************************************************)
\* C1: in every state, so whenever list_sessions or get_session can run and
\* whatever fetch requests are suspended at their await, the stored list and
\* the stored mapping were built by the same call of fetch_copilot_sessions.
C1_NoTornView ==
    session_store.sessions.fetch = session_store.session_data.fetch

\* a read was answered from the second fetch's data while another fetch
\* request was still awaiting
C1_Witness ==
    /\ Awaiting # {}
    /\ session_store.sessions.fetch >= 2
    /\ last_response.op \in {"list_sessions", "get_session"}
    /\ last_response.from >= 2

\* the step in which a fetch request ends because fetch_copilot_sessions raised
FetchFailedStep ==
    /\ fetches' = fetches + 1
    /\ last_response'.op = "fetch"
    /\ last_response'.raised

\* C2: a fetch request whose fetch_copilot_sessions raises is answered 500
\* and leaves both fields of the store as they were, so list_sessions and
\* get_session answer as before it.
C2_FailedFetchKeepsStore ==
    [][FetchFailedStep =>
          /\ last_response'.status = 500
          /\ session_store' = session_store
          /\ ListSessions(session_store') = ListSessions(session_store)
          /\ \A sid \in GetSessionIds :
                GetSession(session_store', sid) = GetSession(session_store, sid)]_vars

\* a fetch failed while the store held the sessions of an earlier fetch
C2_Witness ==
    /\ last_response.op = "fetch"
    /\ last_response.raised
    /\ session_store.sessions.fetch >= 1
    /\ DOMAIN session_store.session_data.items # {}

\* C5: every key of the stored mapping is the sessionId of a session of the
\* stored list, and every stored record has an "events" field.
C5_StoreConsistent ==
    \A k \in DOMAIN session_store.session_data.items :
        /\ \E i \in 1..Len(session_store.sessions.items) :
              /\ HasId(session_store.sessions.items[i])
              /\ session_store.sessions.items[i].sessionId = k
        /\ "events" \in DOMAIN session_store.session_data.items[k]

\* a later fetch whose limit cut the listing replaced an earlier fetch's data
C5_Witness ==
    /\ last_response.op = "fetch"
    /\ ~last_response.raised
    /\ last_response.count < last_response.listed
    /\ session_store.sessions.fetch >= 2
    /\ Cardinality(DOMAIN session_store.session_data.items) = 1

(***************************************************************************)
(* Properties of the GitHub endpoints (SpecGitHub)                         *)
(***************************************************************************)
\* C6: connect answers a failing validate() by its kind: upstream 401 with
\* 401, upstream 403 with 403, upstream 404 with 404, an unparsable URL with
\* 400 and every other failure with 500.
C6_ConnectStatusByKind ==
    (op = "connect" /\ rpc = "done") =>
        IF ~ParseGithubUrl(url) THEN http_status = 400
        ELSE IF upstream.transport_error THEN http_status = 500
        ELSE IF upstream.status = 401 THEN http_status = 401
        ELSE IF upstream.status = 403 THEN http_status = 403
        ELSE IF upstream.status = 404 THEN http_status = 404
        ELSE IF upstream.status >= 400 THEN http_status = 500
        ELSE TRUE

\* the artifact listing arrived and no listed artifact has the requested name
LookupMissed ==
    /\ op = "artifact"
    /\ rpc \in {"closing", "done"}
    /\ GetJson(upstream) = ""
    /\ \A i \in 1..Len(artifacts) : artifacts[i].name # artifact_name

\* C7: on a lookup miss get_artifact returns, without raising and without a
\* download, an error descriptor whose 'available' list is the names of all
\* listed artifacts in listing order.
C7_MissListsAllNames ==
    LookupMissed =>
        /\ raised = ""
        /\ downloads = 0
        /\ DOMAIN returned = {"error", "available"}
        /\ returned.available = [i \in 1..Len(artifacts) |-> artifacts[i].name]

\* a miss in a listing of two differently named artifacts was answered
C7_Witness ==
    /\ LookupMissed
    /\ rpc = "done"
    /\ Len(artifacts) = 2
    /\ artifacts[1].name # artifacts[2].name
    /\ returned.available = <<artifacts[1].name, artifacts[2].name>>

\* get_artifact has returned a value and the endpoint has answered
ArtifactAnswered == op = "artifact" /\ rpc = "done" /\ raised = ""

\* C8: what get_artifact returns is the parsed content of one JSON entry or
\* an error descriptor with both 'error' and 'available'; the endpoint
\* answers 404 for every error descriptor and 200 only for a payload.
C8_PayloadOrDescriptor ==
    ArtifactAnswered =>
        IF "error" \in DOMAIN returned
        THEN /\ "available" \in DOMAIN returned
             /\ http_status = 404
        ELSE /\ parsed # 0
             /\ \A k \in DOMAIN JsonOf(bundle[parsed]) :
                   returned[k] = JsonOf(bundle[parsed])[k]
             /\ http_status = 200

\* the bundle was downloaded and lines 153-172 ran on it
Extracted ==
    /\ op = "artifact"
    /\ rpc \in {"closing", "done"}
    /\ downloads = 1
    /\ DownloadRaises(upstream) = ""

\* positions of the bundle's entries whose name ends with the suffix
Ending(suffix) == {i \in 1..Len(bundle) : EndsWith(bundle[i], suffix)}
Lowest(S) == CHOOSE i \in S : \A j \in S : i <= j

\* C9: get_artifact parses the first entry ending with
\* 'gatekeeper-consolidated.json' if there is one, else the first ending with
\* 'council-results.json', else the first ending with '.json', and returns
\* the 'No JSON found' result only when no entry name ends with '.json'.
C9_EntryByPriority ==
    Extracted =>
        LET gatekeeper == Ending(<<"gatekeeper-consolidated", ".json">>)
            council    == Ending(<<"council-results", ".json">>)
            any        == Ending(<<".json">>)
        IN  /\ parsed = IF gatekeeper # {} THEN Lowest(gatekeeper)
                        ELSE IF council # {} THEN Lowest(council)
                        ELSE IF any # {} THEN Lowest(any)
                        ELSE 0
            /\ raised = "" =>
                 IF any = {} THEN returned = [error |-> "No JSON found in artifact"]
                 ELSE /\ "error" \notin DOMAIN returned
                      /\ returned.document = bundle[parsed]

\* a known file name won over a known one of lower priority and an unknown
\* .json entry that both come earlier in the archive
C9_Witness ==
    /\ Extracted
    /\ raised = ""
    /\ Len(bundle) = 3
    /\ EndsWith(bundle[1], <<"output", ".json">>)
    /\ EndsWith(bundle[2], <<"council-results", ".json">>)
    /\ parsed = 3
    /\ returned.document = bundle[3]

\* an entry name without the directories in front of its last "/"
BaseOf(name) ==
    LET dirs == {i \in 1..Len(name) : name[i] \in DirPieces}
        from == IF dirs = {} THEN 1
                ELSE (CHOOSE i \in dirs : \A j \in dirs : j <= i) + 1
    IN  SubSeq(name, from, Len(name))

\* positions of the bundle's entries whose base filename starts with
\* 'cast-impact-analysis'
CastEntries ==
    {i \in 1..Len(bundle) :
        LET base == BaseOf(bundle[i])
        IN  Len(base) >= 1 /\ base[1] = "cast-impact-analysis"}

\* C11: when get_artifact parsed a JSON entry, the first entry of the bundle
\* whose base filename (directories ignored) starts with 'cast-impact-analysis'
\* is read, if there is one; if the read succeeds the result has every field
\* of the parsed JSON plus 'cast_impact_analysis' with that entry's text; with
\* no such entry or a failing read the parsed JSON is returned unchanged; and
\* the merge raises nothing: an exception leaves only when nothing was read.
C11_CastImpactMerged ==
    /\ (Extracted /\ parsed # 0 /\ raised = "") =>
          LET json == JsonOf(bundle[parsed])
          IN  /\ (cast_read # "none") <=> (CastEntries # {})
              /\ \A k \in DOMAIN json :
                    k \in DOMAIN returned /\ returned[k] = json[k]
              /\ IF cast_read = "ok"
                 THEN /\ DOMAIN returned = DOMAIN json \cup {"cast_impact_analysis"}
                      /\ returned.cast_impact_analysis =
                            TextOf(bundle[Lowest(CastEntries)])
                 ELSE returned = json
    /\ (Extracted /\ raised # "") => cast_read = "none"

\* two entries qualify, the first of them inside a directory, and its text
\* was merged into the parsed JSON
C11_Witness ==
    /\ Extracted
    /\ raised = ""
    /\ parsed # 0
    /\ cast_read = "ok"
    /\ Cardinality(CastEntries) = 2
    /\ bundle[Lowest(CastEntries)][1] \in DirPieces
    /\ returned.document = bundle[parsed]
    /\ returned.cast_impact_analysis = TextOf(bundle[Lowest(CastEntries)])

\* the session has no 'sessionId': the key is absent or its value is empty
NoSessionId(s) == "sessionId" \notin DOMAIN s \/ s.sessionId = ""

\* the non-empty sessionIds of the selected sessions
SelectedIds ==
    {sessions[i].sessionId : i \in {j \in 1..Len(sessions) : ~NoSessionId(sessions[j])}}

\* C12: a selected session without a sessionId (absent or empty) gets no
\* event fetch and no entry in the mapping, yet it stays in the returned list
\* and takes one of the places the limit allows: the returned list is the
\* leading part of the listing whatever the ids are, of length min(limit,
\* listing length) for a positive limit; so the mapping's keys are exactly the
\* distinct non-empty sessionIds of the returned list.
C12_NoIdSkipped ==
    /\ \A i \in 1..Len(sessions) : NoSessionId(sessions[i]) => i \notin DOMAIN evlog
    /\ DOMAIN session_data \subseteq SelectedIds
    /\ pc = "returned" =>
          /\ DOMAIN session_data = SelectedIds
          /\ Cardinality(DOMAIN session_data) = Cardinality(SelectedIds)
          /\ DOMAIN evlog = {i \in 1..Len(sessions) : ~NoSessionId(sessions[i])}
          /\ sessions = SubSeq(listed, 1, Len(sessions))
          /\ (~fetch_all /\ limit > 0) => Len(sessions) = Min(limit, Len(listed))
          /\ fetch_all => sessions = listed

\* limit 2 on a listing of three: a session without the key and a session
\* with an id are returned, a session with an id is cut off, the mapping has
\* one entry
C12_Witness ==
    /\ pc = "returned"
    /\ ~fetch_all
    /\ limit = 2
    /\ Len(listed) = 3
    /\ Len(sessions) = 2
    /\ "sessionId" \notin DOMAIN sessions[1]
    /\ ~NoSessionId(sessions[2])
    /\ ~NoSessionId(listed[3])
    /\ Cardinality(DOMAIN session_data) = 1

\* C13: every client an operation opens is released exactly once on every
\* path.  A GitHub request that made a client has called close() once, and not
\* more, when its response goes out, whatever the upstream calls did; a call of
\* fetch_copilot_sessions whose start() succeeded has called stop() once when
\* it returns or raises, also when listing the sessions raised; no client is
\* released that was not opened; and an operation holding an unreleased
\* client always has a step to take towards its release.
C13_ReleasedOnce ==
    /\ closes = IF gh_client = "closed" THEN 1 ELSE 0
    /\ stops = IF client = "stopped" THEN 1 ELSE 0
    /\ rpc = "done" => gh_client \in {"none", "closed"}
    /\ gh_client = "none" => rpc \in {"off", "idle"} \/ raised = "ValueError"
    /\ gh_client = "open" => ENABLED NextGitHub
    /\ pc = "returned" => client = "stopped"
    /\ pc = "raised" => client \in {"new", "stopped"}
    /\ client = "new" => pc \in {"off", "start", "raised"}
    /\ client = "started" => ENABLED NextFetch

\* list_runs found no workflow with the name: the 404 went out after one
\* close()
C13_Witness ==
    /\ rpc = "done"
    /\ op = "runs"
    /\ raised = "HTTPException"
    /\ http_status = 404
    /\ gh_client = "closed"
    /\ closes = 1

\* The await-by-await call returns what FetchCopilotSessions computes.
FetchAgrees ==
    pc = "returned" =>
        /\ sessions = FetchCopilotSessions(response, limit, fetch_all, evlog).sessions
        /\ session_data = FetchCopilotSessions(response, limit, fetch_all, evlog).session_data

=============================================================================
